---------------------------- MODULE Spec2Model ----------------------------
(***************************************************************************)
(* Model of the invoice synchronizer: a polling job that turns legacy      *)
(* sales orders (status "Invoice") into invoices of a target CRM and       *)
(* writes the invoice linkage / "Finished" status back.                    *)
(*                                                                         *)
(* Two revisions of the job are modelled:                                  *)
(*   rev = "A"  src/invoice_processor.py  (class SalesOrderProcessor)      *)
(*   rev = "B"  src/sync_processor.py     (module level functions)         *)
(*                                                                         *)
(* Specifications:                                                         *)
(*   Spec         the job's cycles against the two CRM systems, with API   *)
(*                failures and the target system marking invoices as sent  *)
(*   SpecLive     Spec with the fairness of the job's sleeps               *)
(*   SpecFetch    the paginated fetch loops on drawn inputs                *)
(*   SpecCompany  the company resolver on drawn inputs                     *)
(***************************************************************************)
EXTENDS Integers, Sequences, FiniteSets, TLC

VARIABLES
    rev,            \* which revision runs: "A" or "B"
    orderAccount,   \* legacy: account1Id of every sales order
    legacy,         \* legacy: per order [status, invoiceForeignId]
    companies,      \* target: Account records, in creation order
    contacts,       \* target: Contact records, in creation order
    invoices,       \* target: Invoice records, in creation order
    invoiceItems,   \* target: InvoiceItem records, in creation order
    nextId,         \* target: next id the server hands out
    pc,             \* position of the job
    cycle,          \* number of cycles started
    sales_orders,   \* the batch fetched by the running cycle (local dicts)
    idx,            \* index into sales_orders of the order being handled
    account,        \* B: result of get_account for the current order
    contact,        \* B: contacts[0] or NoId
    items,          \* B: flattened use-case items of the current order
    invoice,        \* B: result of create_invoice (NoId for {})
    log,            \* requests issued in the running cycle, in order
    failures,       \* number of API errors injected so far
    fIn,            \* SpecFetch: drawn input
    fOut,           \* SpecFetch: result of the fetch loop
    cIn,            \* SpecCompany: drawn input
    cOut            \* SpecCompany: result of get_company

mainVars == <<rev, orderAccount, legacy, companies, contacts, invoices,
              invoiceItems, nextId, pc, cycle, sales_orders, idx, account,
              contact, items, invoice, log, failures>>
fetchVars == <<fIn, fOut>>
companyVars == <<cIn, cOut>>
vars == <<mainVars, fetchVars, companyVars>>

(***************************************************************************)
(* Bounds of the model.                                                    *)
(***************************************************************************)
\* number of legacy sales orders
NumOrders == 2
\* number of cycles the job is allowed to start
MaxCycles == 2
\* number of API errors injected over a run
MaxFailures == 2
\* SpecFetch: largest record set, page size and failing request number
MaxRecords == 5
MaxLimit == 3
\* SpecCompany: largest number of target companies
MaxCompanies == 2

(***************************************************************************)
(* Values.  A Python str is a sequence of characters; None is a value that *)
(* is no sequence of characters.                                           *)
(***************************************************************************)
None == <<"None">>
NoId == 0
Min(a, b) == IF a < b THEN a ELSE b
\* a function over 1..n as a tuple
Tup(f) == SubSeq(f, 1, Len(f))

\* Python truthiness of an Optional[str]: None and "" are falsy
Truthy(s) == s # None /\ s # <<>>

\* str.lower() on the characters that occur in the model
LowerChar(c) ==
    CASE c = "C" -> "c"
      [] c = "Z" -> "z"
      [] c = "D" -> "d"
      [] c = "E" -> "e"
      [] OTHER -> c
Lower(s) == Tup([i \in 1..Len(s) |-> LowerChar(s[i])])
StartsWith(s, p) == Len(s) >= Len(p) /\ SubSeq(s, 1, Len(p)) = p

(***************************************************************************)
(* Paginated fetch.                                                        *)
(***************************************************************************)
\* the list endpoint of the CRM: the records at offset .. offset+limit-1
Page(records, offset, limit) ==
    SubSeq(records, offset + 1, Min(offset + limit, Len(records)))

\* the loop's exit test with <= for <: a full page ends the fetch
short_page_le(entities, limit) == Len(entities) <= limit
\* get_sales_orders: "if len(entities) < limit: break"
short_page(entities, limit) == Len(entities) < limit

\* a fetch loop that skips a failed page and goes on with the next offset
RECURSIVE get_sales_orders_continue(_, _, _, _, _, _)
get_sales_orders_continue(records, limit, offset, all_entities, requests, failAt) ==
    LET reqs == Append(requests, offset)
        entities == IF Len(reqs) = failAt THEN <<>>
                    ELSE Page(records, offset, limit)
        all2 == all_entities \o entities
    IN  IF Len(reqs) # failAt /\ short_page(entities, limit)
        THEN [list |-> all2, requests |-> reqs, raised |-> FALSE]
        ELSE get_sales_orders_continue(records, limit, offset + limit,
                                       all2, reqs, failAt)

\* The loop of sync_processor.get_sales_orders.  failAt is the number of the
\* request that raises EspoAPIError (0: none); the handler logs, sleeps and
\* breaks, so the pages read so far are returned.
RECURSIVE get_sales_orders_loop(_, _, _, _, _, _)
get_sales_orders_loop(records, limit, offset, all_entities, requests, failAt) ==
    LET reqs == Append(requests, offset)
    IN  IF Len(reqs) = failAt
        THEN [list |-> all_entities, requests |-> reqs, raised |-> FALSE]
        ELSE LET entities == Page(records, offset, limit)
                 all2 == all_entities \o entities
             IN  IF short_page(entities, limit)
                 THEN [list |-> all2, requests |-> reqs, raised |-> FALSE]
                 ELSE get_sales_orders_loop(records, limit, offset + limit,
                                            all2, reqs, failAt)

get_sales_orders(records, limit, failAt) ==
    get_sales_orders_loop(records, limit, 0, <<>>, <<>>, failAt)

\* The loop of SalesOrderProcessor.get_entities: no handler, the error
\* propagates to the caller and nothing is returned.
RECURSIVE get_entities_loop(_, _, _, _, _, _)
get_entities_loop(records, limit, offset, all_entities, requests, failAt) ==
    LET reqs == Append(requests, offset)
    IN  IF Len(reqs) = failAt
        THEN [list |-> <<>>, requests |-> reqs, raised |-> TRUE]
        ELSE LET entities == Page(records, offset, limit)
                 all2 == all_entities \o entities
             IN  IF Len(entities) < limit
                 THEN [list |-> all2, requests |-> reqs, raised |-> FALSE]
                 ELSE get_entities_loop(records, limit, offset + limit,
                                        all2, reqs, failAt)

get_entities(records, limit, failAt) ==
    get_entities_loop(records, limit, 0, <<>>, <<>>, failAt)

(***************************************************************************)
(* Legacy CRM data.  Orders 1..NumOrders; three accounts with the shapes   *)
(* of tax identifiers that occur: a VAT code with the "cz" prefix, an      *)
(* empty VAT code, and no VAT code at all (null).                          *)
(***************************************************************************)
Orders == 1..NumOrders
Accounts == {1, 2, 3}

AccountRec(a) ==
    CASE a = 1 -> [id |-> 1, name |-> "Acme", sicCode |-> <<"7">>,
                   dic |-> <<"C", "z", "1">>]
      [] a = 2 -> [id |-> 2, name |-> "Bolt", sicCode |-> None, dic |-> <<>>]
      [] OTHER -> [id |-> 3, name |-> "Duff", sicCode |-> <<"9">>, dic |-> None]

\* get_account's result when the request fails: {}
NoAccount == [id |-> NoId, name |-> "", sicCode |-> None, dic |-> None]

\* ids of the legacy contacts of an account, in result order
LegacyContacts(a) ==
    CASE a = 1 -> <<11, 12>>
      [] a = 2 -> <<>>
      [] OTHER -> <<31>>

\* every order has two use cases with one item each
UseCaseIds(o) == <<10 * o + 1, 10 * o + 2>>
UseCaseItems(uc) == <<10 * uc + 1>>

\* the legacy sales orders a fetch matches (status = Invoice), as dicts
OrderDict(o) ==
    [id |-> o, account1Id |-> orderAccount[o],
     invoiceForeignId |-> legacy[o].invoiceForeignId, invoiceId |-> NoId]
RECURSIVE InvoiceOrdersFrom(_)
InvoiceOrdersFrom(o) ==
    IF o > NumOrders THEN <<>>
    ELSE (IF legacy[o].status = "Invoice" THEN <<OrderDict(o)>> ELSE <<>>)
         \o InvoiceOrdersFrom(o + 1)
InvoiceOrders == InvoiceOrdersFrom(1)

(***************************************************************************)
(* Target CRM.                                                             *)
(***************************************************************************)
NoCompany == [id |-> NoId, name |-> "", sicCode |-> None, dic |-> None,
              deleted |-> FALSE, legacy |-> NoId]

\* get_entity: the records with attribute = value that are not deleted;
\* an EspoAPIError is logged and [] returned
get_entity(table, attribute, value, fail) ==
    IF fail THEN <<>>
    ELSE SelectSeq(table, LAMBDA r : r[attribute] = value /\ ~r.deleted)

\* get_company with the two lookups in the other order
get_company_sic_first(table, name, sic, dic, failDic, failSic) ==
    LET c1 == IF Truthy(sic)
              THEN get_entity(table, "sicCode", sic, failSic) ELSE <<>>
        c2 == IF c1 = <<>> /\ Truthy(dic)
              THEN get_entity(table, "dic", dic, failDic) ELSE c1
    IN  IF c2 # <<>> THEN c2[1] ELSE NoCompany
\* get_company: by dic, else by sic; the name and the threshold are unused
get_company(table, name, sic, dic, failDic, failSic) ==
    LET c1 == IF Truthy(dic)
              THEN get_entity(table, "dic", dic, failDic) ELSE <<>>
        c2 == IF c1 = <<>> /\ Truthy(sic)
              THEN get_entity(table, "sicCode", sic, failSic) ELSE c1
    IN  IF c2 # <<>> THEN c2[1] ELSE NoCompany

(***************************************************************************)
(* The request log of the running cycle: one entry per request issued to   *)
(* either system, in program order.  order is the sales order the job is   *)
(* handling (NoId for the batch fetch), ref the id the path or the         *)
(* response names, ok whether the request succeeded.                       *)
(***************************************************************************)
Rq(sys, method, entity, order, ref, ok) ==
    [sys |-> sys, method |-> method, entity |-> entity, order |-> order,
     ref |-> ref, ok |-> ok, sent |-> FALSE, fields |-> {}, status |-> "",
     accountId |-> NoId, contactId |-> NoId, invoiceId |-> NoId, tax |-> 0]

B2N(b) == IF b THEN 1 ELSE 0

\* page sizes of the batch fetch: get_sales_orders(limit=10), get_entities(limit=200)
SalesOrdersLimit == 10
EntitiesLimit == 200

\* the requests of a batch fetch as log entries; request failAt failed
FetchLog(r, failAt) ==
    Tup([i \in 1..Len(r.requests) |->
        Rq("old", "GET", "BusinessProject", NoId, r.requests[i], i # failAt)])

Opt(cond, entry) == IF cond THEN <<entry>> ELSE <<>>

(***************************************************************************)
(* Revision B: invoice construction (sync_processor.py).                   *)
(***************************************************************************)
\* "21 if company_dic.lower().startswith("cz") else None" (0 stands for None);
\* company_dic is a str here: None raises AttributeError in the caller
tax_rate(company_dic) ==
    IF StartsWith(Lower(company_dic), <<"c", "z">>) THEN 21 ELSE 0

\* the POST of one invoice item as a request
ItemRq(invoice_id, item, company_dic, order, ok) ==
    [Rq("new", "POST", "InvoiceItem", order, item, ok)
        EXCEPT !.invoiceId = invoice_id, !.tax = tax_rate(company_dic)]

\* create_invoice_items: the requests of its loop from item k on.  wi is the
\* index of the item whose POST raises EspoAPIError (0: none); the try
\* encloses the whole loop, so the items after it are never POSTed.
RECURSIVE create_invoice_items(_, _, _, _, _, _)
create_invoice_items(invoice_id, its, company_dic, order, wi, k) ==
    IF k > Len(its) THEN <<>>
    ELSE IF k = wi
         THEN <<ItemRq(invoice_id, its[k], company_dic, order, FALSE)>>
         ELSE <<ItemRq(invoice_id, its[k], company_dic, order, TRUE)>>
              \o create_invoice_items(invoice_id, its, company_dic, order,
                                      wi, k + 1)

\* the InvoiceItem records the target holds after a run of item requests
RECURSIVE ItemRecords(_)
ItemRecords(reqs) ==
    IF reqs = <<>> THEN <<>>
    ELSE (IF Head(reqs).ok
          THEN <<[invoiceId |-> Head(reqs).invoiceId, item |-> Head(reqs).ref,
                  tax |-> Head(reqs).tax]>>
          ELSE <<>>)
         \o ItemRecords(Tail(reqs))

\* the last element of a contact result set instead of the first
last_contact(result) == result[Len(result)]
\* contacts[0] / contact[0]: the first element of a contact result set
first_contact(result) == result[1]

\* invoice["number"], the number the target system gave the invoice, and
\* the URL of the invoice's view, f".../#Invoice/view/{invoice['id']}"
InvoiceNumber(id) == 1000 + id
InvoiceUrl(id) == 2000 + id

\* the invoice is booked on the legacy account's id (as revision A does)
company_id_legacy(company, created, acc) == acc.id
\* company_id = company["id"]: of the matched company, else of the company
\* that the POST of the legacy account created
company_id(company, created, acc) ==
    IF company.id # NoId THEN company.id ELSE created

\* create_invoice(sales_order, sales_order_items, account, contact) on an
\* account that was fetched (account = {} raises KeyError before any request).
\* fDic, fSic, fCon: the dic / sic / contact query fails (swallowed by
\* get_entity); w: position of the write that raises EspoAPIError (0: none).
create_invoice(so, its, acc, con, fDic, fSic, fCon, w) ==
    LET c1 == IF Truthy(acc.dic)
              THEN get_entity(companies, "dic", acc.dic, fDic) ELSE <<>>
        dicQ == Truthy(acc.dic)
        sicQ == c1 = <<>> /\ Truthy(acc.sicCode)
        company == get_company(companies, acc.name, acc.sicCode, acc.dic,
                               fDic, fSic)
        matched == company.id # NoId
        hasContact == con # NoId
        pInv == IF matched THEN 1 ELSE IF hasContact THEN 4 ELSE 2
        crash == acc.dic = None
        last == IF crash THEN pInv ELSE pInv + Len(its)
        issued(p) == w = 0 \/ p <= w
        ok(p) == w = 0 \/ p < w
        \* if company: ... contact = get_entity("Contact", "accountId", company_id)
        found == IF matched
                 THEN get_entity(contacts, "accountId", company.id, fCon)
                 ELSE <<>>
        \* else: company = POST Account; contact = POST Contact; PUT Contact
        newCompany == ~matched /\ ok(1)
        newContact == ~matched /\ hasContact /\ ok(2)
        linked == newContact /\ ok(3)
        cid == company_id(company, nextId, acc)
        contact_id == nextId + 1
        billing == IF matched
                   THEN (IF found # <<>> THEN first_contact(found).id ELSE NoId)
                   ELSE (IF hasContact THEN contact_id ELSE NoId)
        invOk == issued(pInv) /\ ok(pInv)
        invoice_id == nextId + B2N(newCompany) + B2N(newContact)
        wi == IF w > pInv THEN w - pInv ELSE 0
        itemReqs == IF invOk /\ ~crash
                    THEN create_invoice_items(invoice_id, its, acc.dic, so.id, wi, 1)
                    ELSE <<>>
        reqs ==
            Opt(dicQ, [Rq("new", "GET", "Account", so.id, NoId, ~fDic)
                          EXCEPT !.fields = {"dic"}])
            \o Opt(sicQ, [Rq("new", "GET", "Account", so.id, NoId, ~fSic)
                             EXCEPT !.fields = {"sicCode"}])
            \o Opt(matched, Rq("new", "GET", "Contact", so.id, company.id, ~fCon))
            \o Opt(~matched,
                   [Rq("new", "POST", "Account", so.id,
                       IF ok(1) THEN nextId ELSE NoId, ok(1))
                       EXCEPT !.accountId = acc.id])
            \o Opt(~matched /\ hasContact /\ issued(2),
                   [Rq("new", "POST", "Contact", so.id,
                       IF ok(2) THEN contact_id ELSE NoId, ok(2))
                       EXCEPT !.contactId = con])
            \o Opt(~matched /\ hasContact /\ issued(3),
                   [Rq("new", "PUT", "Contact", so.id, contact_id, ok(3))
                       EXCEPT !.accountId = cid])
            \o Opt(issued(pInv),
                   [Rq("new", "POST", "Invoice", so.id,
                       IF ok(pInv) THEN invoice_id ELSE NoId, ok(pInv))
                       EXCEPT !.accountId = cid, !.contactId = billing])
            \o itemReqs
    IN  [wellformed |-> (fDic => dicQ) /\ (fSic => sicQ) /\ (fCon => matched)
                        /\ w <= last,
         nfail |-> B2N(fDic) + B2N(fSic) + B2N(fCon) + B2N(w # 0),
         companies |->
            companies \o Opt(newCompany,
                [id |-> nextId, name |-> acc.name, sicCode |-> acc.sicCode,
                 dic |-> acc.dic, deleted |-> FALSE, legacy |-> acc.id]),
         contacts |->
            contacts \o Opt(newContact,
                [id |-> contact_id,
                 accountId |-> IF linked THEN cid ELSE acc.id,
                 deleted |-> FALSE, legacy |-> con]),
         invoices |->
            invoices \o Opt(invOk,
                [id |-> invoice_id, order |-> so.id, accountId |-> cid,
                 billingContactId |-> billing, sent |-> FALSE]),
         invoiceItems |-> invoiceItems \o ItemRecords(itemReqs),
         nextId |-> nextId + B2N(newCompany) + B2N(newContact) + B2N(invOk),
         log |-> reqs,
         \* AttributeError: None.lower() in create_invoice_items, not caught
         \* by "except EspoAPIError"
         raised |-> invOk /\ crash,
         invoice |-> IF invOk /\ ~crash THEN invoice_id ELSE NoId]

(***************************************************************************)
(* Initial state of the job and of the two systems.                        *)
(***************************************************************************)
\* revision A looks the billing contact up in the target system by the
\* legacy account id: the target contacts that exist for accounts 1 and 3
TargetContactsA ==
    <<[id |-> 91, accountId |-> 1, deleted |-> FALSE, legacy |-> NoId],
      [id |-> 92, accountId |-> 1, deleted |-> FALSE, legacy |-> NoId],
      [id |-> 93, accountId |-> 3, deleted |-> FALSE, legacy |-> NoId]>>

\* revision B may find the company of legacy account 1 in the target system
\* already, with two contacts
TargetCompaniesB ==
    <<[id |-> 81, name |-> "Acme", sicCode |-> <<"7">>,
       dic |-> <<"C", "z", "1">>, deleted |-> FALSE, legacy |-> NoId]>>
TargetContactsB ==
    <<[id |-> 82, accountId |-> 81, deleted |-> FALSE, legacy |-> NoId],
      [id |-> 83, accountId |-> 81, deleted |-> FALSE, legacy |-> NoId]>>

\* SpecFetch and SpecCompany at rest
Pending == [list |-> <<>>, requests |-> <<>>, raised |-> FALSE, done |-> FALSE]
FetchIdle ==
    /\ fIn = [n |-> 0, limit |-> 1, failAt |-> 0]
    /\ fOut = [sync |-> Pending, inv |-> Pending]
CompanyIdle ==
    /\ cIn = [table |-> <<>>, name |-> "", sic |-> None, dic |-> None,
              failDic |-> FALSE, failSic |-> FALSE]
    /\ cOut = [done |-> FALSE, company |-> NoCompany]

MainInit ==
    /\ rev \in {"A", "B"}
    /\ orderAccount \in [Orders -> Accounts]
    /\ legacy = [o \in Orders |->
                    [status |-> "Invoice", invoiceForeignId |-> NoId,
                     invoiceUrl |-> NoId, invoiceNumber |-> NoId]]
    /\ companies \in IF rev = "B" THEN {<<>>, TargetCompaniesB} ELSE {<<>>}
    /\ contacts = IF rev = "A" THEN TargetContactsA
                  ELSE IF companies = <<>> THEN <<>> ELSE TargetContactsB
    /\ invoices = <<>>
    /\ invoiceItems = <<>>
    /\ nextId = 101
    /\ pc = "idle"
    /\ cycle = 0
    /\ sales_orders = <<>>
    /\ idx = 0
    /\ account = NoAccount
    /\ contact = NoId
    /\ items = <<>>
    /\ invoice = NoId
    /\ log = <<>>
    /\ failures = 0

Init == MainInit /\ FetchIdle /\ CompanyIdle

targetVars == <<companies, contacts, invoices, invoiceItems, nextId>>
localVars == <<account, contact, items, invoice>>
otherVars == <<fetchVars, companyVars, rev, orderAccount>>

\* the loop of invoice_processor moves to the next order, or the cycle ends
NextOrderB ==
    IF idx < Len(sales_orders)
    THEN idx' = idx + 1 /\ pc' = "sent_check"
    ELSE idx' = 0 /\ pc' = "idle"

(***************************************************************************)
(* Revision B: sync_processor.invoice_processor, one cycle.                *)
(***************************************************************************)
\* sales_orders = get_sales_orders("BusinessProject", OLD_CLIENT)
StartCycleB ==
    /\ rev = "B" /\ pc = "idle" /\ cycle < MaxCycles
    /\ \E failAt \in 0..(Len(InvoiceOrders) \div SalesOrdersLimit + 1) :
        LET r == get_sales_orders(InvoiceOrders, SalesOrdersLimit, failAt)
        IN  /\ failAt # 0 => failures < MaxFailures
            /\ failures' = failures + B2N(failAt # 0)
            /\ cycle' = cycle + 1
            /\ sales_orders' = r.list
            /\ log' = FetchLog(r, failAt)
            /\ IF r.list # <<>>
               THEN idx' = 1 /\ pc' = "sent_check"
               ELSE idx' = 0 /\ pc' = "idle"
    /\ UNCHANGED <<legacy, targetVars, localVars, otherVars>>

InvoiceById(id) == CHOOSE v \in {invoices[k] : k \in 1..Len(invoices)} : v.id = id

\* an update that writes the order's account instead of the order
update_sales_order_account(so, data, reqs, fail) ==
    /\ fail => failures + Len(SelectSeq(reqs, LAMBDA q : ~q.ok)) < MaxFailures
    /\ legacy' = legacy
    /\ log' = log \o reqs \o
                <<[Rq("old", "PUT", "Account", so.id, so.account1Id, ~fail)
                    EXCEPT !.fields = DOMAIN data]>>
    /\ failures' = failures + Len(SelectSeq(reqs, LAMBDA q : ~q.ok)) + B2N(fail)
\* update_sales_order(sales_order, data): PUT BusinessProject/<id> after the
\* requests in reqs; an EspoAPIError is logged and swallowed
update_sales_order(so, data, reqs, fail) ==
    /\ fail => failures + Len(SelectSeq(reqs, LAMBDA q : ~q.ok)) < MaxFailures
    /\ legacy' = IF fail THEN legacy
                 ELSE [legacy EXCEPT ![so.id] = data @@ legacy[so.id]]
    /\ log' = log \o reqs \o
                <<[Rq("old", "PUT", "BusinessProject", so.id, so.id, ~fail)
                    EXCEPT !.fields = DOMAIN data,
                           !.status = IF "status" \in DOMAIN data
                                      THEN data.status ELSE "",
                           !.invoiceId = IF "invoiceForeignId" \in DOMAIN data
                                         THEN data.invoiceForeignId ELSE NoId]>>
    /\ failures' = failures + Len(SelectSeq(reqs, LAMBDA q : ~q.ok)) + B2N(fail)

\* the test of get_sent_to_pohoda without the comparison
is_sent_to_pohoda_always(inv) == TRUE
\* is_sent_to_pohoda == "Sent"
is_sent_to_pohoda(inv) == inv.sent

\* get_sent_to_pohoda(sales_order) and the "continue" of the caller
get_sent_to_pohoda(so) ==
    \/ \* invoiceForeignId is empty: return False
       /\ so.invoiceForeignId = NoId
       /\ pc' = "enrich"
       /\ UNCHANGED <<legacy, log, failures, idx>>
    \/ \* get_invoice fails and returns {}: invoice["sendStatus"] raises
       \* KeyError, which is logged; the function returns None
       /\ so.invoiceForeignId # NoId
       /\ failures < MaxFailures
       /\ log' = Append(log, Rq("new", "GET", "Invoice", so.id,
                                so.invoiceForeignId, FALSE))
       /\ failures' = failures + 1
       /\ pc' = "enrich"
       /\ UNCHANGED <<legacy, idx>>
    \/ \* the invoice is read and is not sent: return True
       /\ so.invoiceForeignId # NoId
       /\ ~is_sent_to_pohoda(InvoiceById(so.invoiceForeignId))
       /\ log' = Append(log,
                    [Rq("new", "GET", "Invoice", so.id, so.invoiceForeignId, TRUE)
                        EXCEPT !.sent = InvoiceById(so.invoiceForeignId).sent])
       /\ NextOrderB
       /\ UNCHANGED <<legacy, failures>>
    \/ \* the invoice is read with sendStatus "Sent": update, return True
       /\ so.invoiceForeignId # NoId
       /\ is_sent_to_pohoda(InvoiceById(so.invoiceForeignId))
       /\ \E fPut \in BOOLEAN :
            update_sales_order(so, [status |-> "Finished"],
                <<[Rq("new", "GET", "Invoice", so.id, so.invoiceForeignId, TRUE)
                    EXCEPT !.sent = InvoiceById(so.invoiceForeignId).sent]>>,
                fPut)
       /\ NextOrderB

SentCheckB ==
    /\ rev = "B" /\ pc = "sent_check"
    /\ get_sent_to_pohoda(sales_orders[idx])
    /\ UNCHANGED <<targetVars, localVars, otherVars, cycle, sales_orders>>

\* get_use_case_items for every id of get_use_case_ids, flattened; the use
\* cases in failed return []
RECURSIVE FlattenItems(_, _, _)
FlattenItems(ucs, k, failed) ==
    IF k > Len(ucs) THEN <<>>
    ELSE (IF k \in failed THEN <<>> ELSE UseCaseItems(ucs[k]))
         \o FlattenItems(ucs, k + 1, failed)

\* the enrichment reads of invoice_processor for one order: get_account,
\* get_contacts, get_use_case_ids, get_use_case_items; each swallows its
\* EspoAPIError and returns {} or []
EnrichB ==
    /\ rev = "B" /\ pc = "enrich"
    /\ LET so == sales_orders[idx]
           a == so.account1Id
       IN  \E fAcc \in BOOLEAN, fCon \in BOOLEAN, fUc \in BOOLEAN,
              fItems \in SUBSET (1..Len(UseCaseIds(so.id))) :
            LET ucs == IF fUc THEN <<>> ELSE UseCaseIds(so.id)
                cs == IF fCon THEN <<>> ELSE LegacyContacts(a)
                nf == B2N(fAcc) + B2N(fCon) + B2N(fUc) + Cardinality(fItems)
            IN  /\ fUc => fItems = {}
                /\ failures + nf <= MaxFailures
                /\ failures' = failures + nf
                /\ account' = IF fAcc THEN NoAccount ELSE AccountRec(a)
                /\ contact' = IF cs # <<>> THEN first_contact(cs) ELSE NoId
                /\ items' = FlattenItems(ucs, 1, fItems)
                /\ log' = log \o
                     <<Rq("old", "GET", "Account", so.id, a, ~fAcc),
                       Rq("old", "GET", "Contact", so.id, a, ~fCon),
                       Rq("old", "GET", "UseCase", so.id, so.id, ~fUc)>>
                     \o Tup([k \in 1..Len(ucs) |->
                          Rq("old", "GET", "UseCaseItem", so.id, ucs[k],
                             k \notin fItems)])
    /\ pc' = "create"
    /\ UNCHANGED <<legacy, targetVars, invoice, otherVars, cycle,
                   sales_orders, idx>>

\* invoice = create_invoice(sales_order, items, account, contact)
CreateInvoiceB ==
    /\ rev = "B" /\ pc = "create"
    /\ \/ \* account is {}: account["name"] raises KeyError, which only the
          \* handler of invoice_processor catches
          /\ account = NoAccount
          /\ pc' = "backoff"
          /\ UNCHANGED <<targetVars, invoice, log, failures, idx>>
       \/ /\ account # NoAccount
          /\ \E fDic \in BOOLEAN, fSic \in BOOLEAN, fCon \in BOOLEAN,
                w \in 0..(4 + Len(items)) :
              LET r == create_invoice(sales_orders[idx], items, account,
                                      contact, fDic, fSic, fCon, w)
              IN  /\ r.wellformed
                  /\ failures + r.nfail <= MaxFailures
                  /\ failures' = failures + r.nfail
                  /\ companies' = r.companies
                  /\ contacts' = r.contacts
                  /\ invoices' = r.invoices
                  /\ invoiceItems' = r.invoiceItems
                  /\ nextId' = r.nextId
                  /\ log' = log \o r.log
                  /\ invoice' = r.invoice
                  /\ IF r.raised THEN pc' = "backoff" /\ idx' = idx
                     ELSE IF r.invoice # NoId THEN pc' = "update" /\ idx' = idx
                     ELSE NextOrderB
    /\ UNCHANGED <<legacy, account, contact, items, otherVars, cycle,
                   sales_orders>>

\* a caller that drops the invoice: no update_sales_order
UpdateB_none ==
    /\ rev = "B" /\ pc = "update"
    /\ NextOrderB
    /\ UNCHANGED <<legacy, log, failures, targetVars, localVars, otherVars,
                   cycle, sales_orders>>
\* if invoice: update_sales_order(sales_order, payload)
UpdateB ==
    /\ rev = "B" /\ pc = "update"
    /\ \E fPut \in BOOLEAN :
        update_sales_order(sales_orders[idx],
            [invoiceUrl |-> InvoiceUrl(invoice),
             invoiceNumber |-> InvoiceNumber(invoice),
             invoiceForeignId |-> invoice], <<>>, fPut)
    /\ NextOrderB
    /\ UNCHANGED <<targetVars, localVars, otherVars, cycle, sales_orders>>

\* a handler that re-raises: the exception leaves the entry point's loop
Backoff_reraise ==
    /\ pc = "backoff"
    /\ pc' = "exited" /\ idx' = 0
    /\ UNCHANGED <<legacy, targetVars, localVars, otherVars, cycle,
                   sales_orders, log, failures>>
\* the handler of invoice_processor (or of process_sales_orders) has logged
\* the exception; the job sleeps and the entry point's loop calls it again
Backoff ==
    /\ pc = "backoff"
    /\ pc' = "idle" /\ idx' = 0
    /\ UNCHANGED <<legacy, targetVars, localVars, otherVars, cycle,
                   sales_orders, log, failures>>

\* the accounting side of the target system marks an invoice as sent
\* (sendStatus = "Sent", processed = true)
EnvSent ==
    /\ \E k \in 1..Len(invoices) :
        /\ ~invoices[k].sent
        /\ invoices' = [invoices EXCEPT ![k].sent = TRUE]
    /\ UNCHANGED <<legacy, companies, contacts, invoiceItems, nextId,
                   localVars, otherVars, pc, cycle, sales_orders, idx, log,
                   failures>>

(***************************************************************************)
(* Revision A: SalesOrderProcessor.process_sales_orders, one cycle.        *)
(***************************************************************************)
\* sales_orders = self.get_entities("BusinessProject", self.old_client, filters)
StartCycleA ==
    /\ rev = "A" /\ pc = "idle" /\ cycle < MaxCycles
    /\ \E failAt \in 0..(Len(InvoiceOrders) \div EntitiesLimit + 1) :
        LET r == get_entities(InvoiceOrders, EntitiesLimit, failAt)
        IN  /\ failAt # 0 => failures < MaxFailures
            /\ failures' = failures + B2N(failAt # 0)
            /\ cycle' = cycle + 1
            /\ sales_orders' = r.list
            /\ log' = FetchLog(r, failAt)
            /\ IF r.raised THEN idx' = 0 /\ pc' = "backoff"
               ELSE IF r.list = <<>> THEN idx' = 0 /\ pc' = "idle"
               ELSE idx' = 1 /\ pc' = "process"
    /\ UNCHANGED <<legacy, targetVars, localVars, otherVars>>

\* fetch_entity_by_field(entity_type, field, value): a paginated get_entities
\* on the target system with the filters field = value and deleted = false
fetch_entity_by_field(table, field, value, failAt) ==
    get_entities(SelectSeq(table, LAMBDA r : r[field] = value /\ ~r.deleted),
                 EntitiesLimit, failAt)

\* "for item in items: self.create_invoice_item(invoice["id"], item)" from
\* item k on; create_invoice_item swallows the EspoAPIError of its POST, so
\* every item is POSTed; failed holds the indexes of the failing POSTs
RECURSIVE create_invoice_item(_, _, _, _, _)
create_invoice_item(invoice_id, its, order, failed, k) ==
    IF k > Len(its) THEN <<>>
    ELSE <<[Rq("new", "POST", "InvoiceItem", order, its[k], k \notin failed)
              EXCEPT !.invoiceId = invoice_id]>>
         \o create_invoice_item(invoice_id, its, order, failed, k + 1)

\* a guard that skips the orders that already have an invoice
creates_invoice_unless_invoiced(so) ==
    \A k \in 1..Len(invoices) : invoices[k].order # so.id
\* process_single_order calls create_invoice for every order it is given:
\* nothing tests whether the order already carries an invoice
creates_invoice(so) == TRUE

\* process_single_order(sales_order).  r is the number of the request that
\* raises (0: none) among GET Account, the Contact query, the UseCase query,
\* one UseCaseItem query per use case and POST Invoice; failed holds the
\* indexes of the item POSTs that fail.
process_single_order(so, r, failed) ==
    LET a == so.account1Id
        ucs == UseCaseIds(so.id)
        pInv == 4 + Len(ucs)
        issued(p) == r = 0 \/ p <= r
        ok(p) == r = 0 \/ p < r
        found == fetch_entity_by_field(contacts, "accountId", a, 0).list
        its == FlattenItems(ucs, 1, {})
        \* contacts[0] raises IndexError on an empty result
        indexError == ok(pInv - 1) /\ found = <<>>
        invOk == creates_invoice(so) /\ ~indexError /\ ok(pInv)
        itemReqs == IF invOk
                    THEN create_invoice_item(nextId, its, so.id, failed, 1)
                    ELSE <<>>
        reqs ==
            <<Rq("old", "GET", "Account", so.id, a, ok(1))>>
            \o Opt(issued(2), Rq("new", "GET", "Contact", so.id, a, ok(2)))
            \o Opt(issued(3), Rq("old", "GET", "UseCase", so.id, so.id, ok(3)))
            \o Tup([k \in 1..(IF r = 0 \/ r >= pInv THEN Len(ucs)
                              ELSE IF r <= 3 THEN 0 ELSE r - 3) |->
                      Rq("old", "GET", "UseCaseItem", so.id, ucs[k], ok(3 + k))])
            \o Opt(creates_invoice(so) /\ ~indexError /\ issued(pInv),
                   [Rq("new", "POST", "Invoice", so.id,
                       IF ok(pInv) THEN nextId ELSE NoId, ok(pInv))
                       EXCEPT !.accountId = a,
                              !.contactId = IF found # <<>>
                                            THEN first_contact(found).id
                                            ELSE NoId])
            \o itemReqs
    IN  [wellformed |-> r <= pInv /\ (failed # {} => invOk)
                        /\ failed \subseteq 1..Len(its),
         nfail |-> B2N(r # 0) + Cardinality(failed),
         invoices |->
            invoices \o Opt(invOk,
                [id |-> nextId, order |-> so.id, accountId |-> a,
                 billingContactId |-> first_contact(found).id,
                 sent |-> FALSE]),
         invoiceItems |-> invoiceItems \o ItemRecords(itemReqs),
         nextId |-> nextId + B2N(invOk),
         log |-> reqs,
         raised |-> creates_invoice(so) /\ ~invOk,
         invoice |-> IF invOk THEN nextId ELSE NoId]

\* a loop that leaves for the reconcile phase without processing its order
ProcessSingleOrderA_skip ==
    /\ rev = "A" /\ pc = "process"
    /\ pc' = "wait" /\ idx' = 0
    /\ UNCHANGED <<legacy, targetVars, localVars, otherVars, cycle,
                   sales_orders, log, failures>>

\* "for order in sales_orders: self.process_single_order(order)"; an
\* exception ends the cycle in the handler of process_sales_orders
ProcessSingleOrderA ==
    /\ rev = "A" /\ pc = "process"
    /\ \E r \in 0..(4 + Len(UseCaseIds(sales_orders[idx].id))),
          failed \in SUBSET (1..Len(FlattenItems(
                                      UseCaseIds(sales_orders[idx].id), 1, {}))) :
        LET p == process_single_order(sales_orders[idx], r, failed)
        IN  /\ p.wellformed
            /\ failures + p.nfail <= MaxFailures
            /\ failures' = failures + p.nfail
            /\ invoices' = p.invoices
            /\ invoiceItems' = p.invoiceItems
            /\ nextId' = p.nextId
            /\ log' = log \o p.log
            /\ sales_orders' =
                 IF p.raised THEN sales_orders
                 ELSE [sales_orders EXCEPT ![idx].invoiceId = p.invoice]
            /\ IF p.raised THEN pc' = "backoff" /\ idx' = idx
               ELSE IF idx < Len(sales_orders)
                    THEN pc' = "process" /\ idx' = idx + 1
                    ELSE pc' = "wait" /\ idx' = 0
    /\ UNCHANGED <<legacy, companies, contacts, localVars, otherVars, cycle>>

\* wait_and_verify_sync: time.sleep(360) before the invoices are read back
WaitA ==
    /\ rev = "A" /\ pc = "wait"
    /\ pc' = "verify" /\ idx' = 1
    /\ UNCHANGED <<legacy, targetVars, localVars, otherVars, cycle,
                   sales_orders, log, failures>>

\* the test of wait_and_verify_sync without the flag
processed_always(inv) == TRUE
\* invoice.get("processed")
processed(inv) == inv.sent

\* the loop of wait_and_verify_sync moves on, or process_sales_orders returns
NextOrderA ==
    IF idx < Len(sales_orders)
    THEN idx' = idx + 1 /\ pc' = "verify"
    ELSE idx' = 0 /\ pc' = "idle"

\* update_sales_order_status(sales_order) after the request rq: PUT
\* BusinessProject/<id> with status "Finished", invoiceUrl and invoiceNumber;
\* an EspoAPIError propagates to the handler of process_sales_orders
update_sales_order_status(so, rq, fail) ==
    /\ fail => failures < MaxFailures
    /\ failures' = failures + B2N(fail)
    /\ legacy' = IF fail THEN legacy
                 ELSE [legacy EXCEPT ![so.id].status = "Finished",
                                     ![so.id].invoiceUrl =
                                        InvoiceUrl(so.invoiceId),
                                     ![so.id].invoiceNumber =
                                        InvoiceNumber(so.invoiceId)]
    /\ log' = log \o <<rq,
                [Rq("old", "PUT", "BusinessProject", so.id, so.id, ~fail)
                    EXCEPT !.fields = {"status", "invoiceUrl", "invoiceNumber"},
                           !.status = "Finished"]>>
    /\ IF fail THEN pc' = "backoff" /\ idx' = idx ELSE NextOrderA

\* one iteration of the loop of wait_and_verify_sync
VerifyA ==
    /\ rev = "A" /\ pc = "verify"
    /\ LET so == sales_orders[idx]
           rq == [Rq("new", "GET", "Invoice", so.id, so.invoiceId, TRUE)
                     EXCEPT !.sent = InvoiceById(so.invoiceId).sent]
       IN  \/ \* the GET fails: the error ends the cycle
              /\ failures < MaxFailures
              /\ failures' = failures + 1
              /\ log' = Append(log, [rq EXCEPT !.ok = FALSE, !.sent = FALSE])
              /\ pc' = "backoff" /\ idx' = idx
              /\ UNCHANGED legacy
           \/ \* processed is false or absent
              /\ ~processed(InvoiceById(so.invoiceId))
              /\ log' = Append(log, rq)
              /\ NextOrderA
              /\ UNCHANGED <<legacy, failures>>
           \/ \* processed is true
              /\ processed(InvoiceById(so.invoiceId))
              /\ \E fPut \in BOOLEAN : update_sales_order_status(so, rq, fPut)
    /\ UNCHANGED <<targetVars, localVars, otherVars, cycle, sales_orders>>

NextA == StartCycleA \/ ProcessSingleOrderA \/ WaitA \/ VerifyA

NextB == StartCycleB \/ SentCheckB \/ EnrichB \/ CreateInvoiceB \/ UpdateB

Next == NextA \/ NextB \/ Backoff \/ EnvSent

Spec == Init /\ [][Next]_vars

\* The job is one sequential loop ("while True") whose sleeps return: the
\* handler's sleep ends, and the entry point calls the job again.
StartCycle == StartCycleA \/ StartCycleB
SpecLive == Spec /\ WF_vars(Backoff) /\ WF_vars(StartCycle)

(***************************************************************************)
(* SpecFetch: both paginated fetch loops on every record set of up to      *)
(* MaxRecords records, every page size up to MaxLimit and every failing    *)
(* request.                                                                *)
(***************************************************************************)
Records(n) == Tup([i \in 1..n |-> 100 + i])

MainIdle ==
    /\ MainInit /\ rev = "B" /\ orderAccount = [o \in Orders |-> 1]
    /\ companies = <<>>

InitFetch ==
    /\ MainIdle /\ CompanyIdle
    /\ fIn \in [n : 0..MaxRecords, limit : 1..MaxLimit,
                failAt : 0..(MaxRecords + 1)]
    /\ fOut = [sync |-> Pending, inv |-> Pending]

CallGetSalesOrders ==
    /\ ~fOut.sync.done
    /\ fOut' = [fOut EXCEPT !.sync =
                  [done |-> TRUE] @@
                  get_sales_orders(Records(fIn.n), fIn.limit, fIn.failAt)]
    /\ UNCHANGED <<fIn, mainVars, companyVars>>

CallGetEntities ==
    /\ ~fOut.inv.done
    /\ fOut' = [fOut EXCEPT !.inv =
                  [done |-> TRUE] @@
                  get_entities(Records(fIn.n), fIn.limit, fIn.failAt)]
    /\ UNCHANGED <<fIn, mainVars, companyVars>>

NextFetch == CallGetSalesOrders \/ CallGetEntities

SpecFetch == InitFetch /\ [][NextFetch]_vars

(***************************************************************************)
(* SpecCompany: get_company on every table of up to MaxCompanies target    *)
(* Accounts and every (name, sic, dic) drawn below, with either lookup     *)
(* failing or not.                                                         *)
(***************************************************************************)
CompanyShapes ==
    [name : {"Acme", "Bolt"}, sicCode : {<<"7">>, <<"9">>},
     dic : {<<"C", "z", "1">>, <<"D", "E", "2">>}, deleted : BOOLEAN]

CompanyTables ==
    UNION {{Tup([i \in 1..k |->
                    [id |-> 200 + i, name |-> f[i].name,
                     sicCode |-> f[i].sicCode, dic |-> f[i].dic,
                     deleted |-> f[i].deleted, legacy |-> NoId]]) :
              f \in [1..k -> CompanyShapes]} : k \in 0..MaxCompanies}

InitCompany ==
    /\ MainIdle /\ FetchIdle
    /\ cIn \in [table : CompanyTables, name : {"Acme", "Duff"},
                sic : {None, <<"7">>}, dic : {None, <<>>, <<"C", "z", "1">>},
                failDic : BOOLEAN, failSic : BOOLEAN]
    \* a lookup can only fail when it is issued
    /\ cIn.failDic => Truthy(cIn.dic)
    /\ cIn.failSic => Truthy(cIn.sic)
    /\ cOut = [done |-> FALSE, company |-> NoCompany]

CallGetCompany ==
    /\ ~cOut.done
    /\ cOut' = [done |-> TRUE,
                company |-> get_company(cIn.table, cIn.name, cIn.sic, cIn.dic,
                                        cIn.failDic, cIn.failSic)]
    /\ UNCHANGED <<cIn, mainVars, fetchVars>>

NextCompany == CallGetCompany

SpecCompany == InitCompany /\ [][NextCompany]_vars

(***************************************************************************)
(* Vocabulary of the properties.                                           *)
(***************************************************************************)
LogIdx == 1..Len(log)
IsInvoiceRead(q) == q.sys = "new" /\ q.method = "GET" /\ q.entity = "Invoice"
IsLegacyPut(q) == q.sys = "old" /\ q.method = "PUT"
IsStatusPut(q) == IsLegacyPut(q) /\ "status" \in q.fields
IsTargetWrite(q) == q.sys = "new" /\ q.method \in {"POST", "PUT"}
IsItemPost(q) == q.sys = "new" /\ q.method = "POST" /\ q.entity = "InvoiceItem"
IsInvoicePost(q) == q.sys = "new" /\ q.method = "POST" /\ q.entity = "Invoice"

\* the invoice the running cycle holds as linked to order o: invoiceForeignId
\* of the fetched order in B, the invoiceId set by process_single_order in A
LinkedInvoice(o) ==
    LET so == CHOOSE d \in {sales_orders[k] : k \in 1..Len(sales_orders)} :
                d.id = o
    IN  IF rev = "B" THEN so.invoiceForeignId ELSE so.invoiceId

InvoicesOf(o) == {k \in 1..Len(invoices) : invoices[k].order = o}

\* C1: a legacy write of a status is always "Finished" and comes, in the same
\* cycle, after a successful read of the order's linked invoice that showed
\* the sent indicator; an order that is Finished has a sent invoice.
C1_FinishedOnlyAfterSent ==
    /\ \A j \in LogIdx :
        IsStatusPut(log[j]) =>
            /\ log[j].status = "Finished"
            /\ \E i \in 1..(j - 1) :
                /\ IsInvoiceRead(log[i]) /\ log[i].ok /\ log[i].sent
                /\ log[i].order = log[j].order
                /\ log[i].ref = LinkedInvoice(log[j].order)
    /\ \A o \in Orders :
        /\ legacy[o].status \in {"Invoice", "Finished"}
        /\ legacy[o].status = "Finished" =>
              \E k \in InvoicesOf(o) : invoices[k].sent

\* C1 witness: revision A has marked an order Finished
C1_Witness ==
    /\ rev = "A"
    /\ \E o \in Orders : legacy[o].status = "Finished"
    /\ \E j \in LogIdx : IsStatusPut(log[j]) /\ log[j].ok

\* C2 (as claimed): revision B POSTs at most one invoice per sales order
C2_AtMostOneInvoicePerOrder ==
    rev = "B" => \A o \in Orders : Cardinality(InvoicesOf(o)) <= 1

\* ids of the invoices POSTed in the running (or last) cycle
PostedInCycle ==
    {log[i].ref : i \in {j \in LogIdx : IsInvoicePost(log[j]) /\ log[j].ok}}
\* order o had an invoice before the running (or last) cycle started
HadInvoiceBefore(o) ==
    \E k \in InvoicesOf(o) : invoices[k].id \notin PostedInCycle
PostedFor(o) ==
    \E i \in LogIdx : IsInvoicePost(log[i]) /\ log[i].ok /\ log[i].order = o

\* C3 (as claimed): in revision A, when a cycle is over, every fetched order
\* that already had an invoice got a second one POSTed in that cycle
C3_Original ==
    (rev = "A" /\ pc \in {"idle", "backoff"}) =>
        \A k \in 1..Len(sales_orders) :
            HadInvoiceBefore(sales_orders[k].id) => PostedFor(sales_orders[k].id)

\* process_single_order has returned for the k-th order of the batch
ProcessedA(k) ==
    \/ pc = "process" /\ k < idx
    \/ pc \in {"wait", "verify"}
    \/ \E i \in LogIdx : IsInvoiceRead(log[i])

\* C3 (amended): in revision A, every fetched order that already had an
\* invoice and for which process_single_order returned without an exception
\* got a second, new invoice POSTed in that cycle
C3_SecondInvoice ==
    rev = "A" =>
        \A k \in 1..Len(sales_orders) :
            (ProcessedA(k) /\ HadInvoiceBefore(sales_orders[k].id)) =>
                /\ PostedFor(sales_orders[k].id)
                /\ Cardinality(InvoicesOf(sales_orders[k].id)) >= 2
                /\ sales_orders[k].invoiceId \in PostedInCycle

\* C3 witness: an order fetched again by revision A holds two invoices
C3_Witness ==
    /\ rev = "A" /\ cycle = 2
    /\ \E k \in 1..Len(sales_orders) :
        /\ ProcessedA(k)
        /\ HadInvoiceBefore(sales_orders[k].id)
        /\ Cardinality(InvoicesOf(sales_orders[k].id)) = 2

\* the offsets 0, limit, 2*limit, ... of a fetch of n records
ExpectedOffsets(n, limit) == Tup([i \in 1..(n \div limit + 1) |-> (i - 1) * limit])
NoRequestFailed(out) == fIn.failAt = 0 \/ fIn.failAt > Len(out.requests)

\* C4: when no request fails, either fetch loop requests the offsets 0, limit,
\* 2*limit, ..., returns every record once in page order, and its last
\* request is the first one that returned a page shorter than limit
C4_Pagination ==
    \A out \in {fOut.sync, fOut.inv} :
        (out.done /\ NoRequestFailed(out)) =>
            /\ ~out.raised
            /\ out.requests = ExpectedOffsets(fIn.n, fIn.limit)
            /\ out.list = Records(fIn.n)
            /\ \A i \in 1..Len(out.requests) :
                 (Len(Page(Records(fIn.n), out.requests[i], fIn.limit)) < fIn.limit)
                    <=> (i = Len(out.requests))

\* C4 witness: a total that is a multiple of the page size costs one more
\* request, which returns an empty page
C4_Witness ==
    /\ fOut.sync.done /\ fOut.inv.done /\ fIn.failAt = 0
    /\ fIn.n = 2 * fIn.limit /\ fIn.limit > 1
    /\ Len(fOut.sync.requests) = 3 /\ Len(fOut.inv.requests) = 3
    /\ Page(Records(fIn.n), fOut.inv.requests[3], fIn.limit) = <<>>

\* the non-deleted companies of the drawn table with the drawn dic
DicMatches == SelectSeq(cIn.table, LAMBDA c : ~c.deleted /\ c.dic = cIn.dic)

NameSimilarity(a, b) == IF a = b THEN 100 ELSE 0
\* get_company(..., threshold: int = 85)
Threshold == 85

CodeMatch(c) ==
    /\ ~c.deleted
    /\ \/ Truthy(cIn.dic) /\ c.dic = cIn.dic
       \/ Truthy(cIn.sic) /\ c.sicCode = cIn.sic
SimilarNames ==
    SelectSeq(cIn.table,
              LAMBDA c : ~c.deleted /\ NameSimilarity(c.name, cIn.name) > Threshold)

\* C6 (as claimed): without a code match the resolver returns the first
\* company whose name scores above the threshold, and no match when every
\* score is at or below it
C6_Original ==
    (cOut.done /\ \A i \in 1..Len(cIn.table) : ~CodeMatch(cIn.table[i])) =>
        IF SimilarNames # <<>>
        THEN cOut.company = SimilarNames[1]
        ELSE cOut.company = NoCompany

StatusPutsOf(o) == {j \in LogIdx : IsStatusPut(log[j]) /\ log[j].order = o}

\* C7: an order whose invoice is read with the sent indicator true gets
\* exactly one legacy update with status "Finished" in that cycle, right
\* after the read; an order whose invoice is read unsent, or not read
\* successfully, gets no legacy update carrying a status in that cycle
C7_ExactlyOneFinished ==
    \A i \in LogIdx :
        IsInvoiceRead(log[i]) =>
            IF log[i].ok /\ log[i].sent
            THEN /\ StatusPutsOf(log[i].order) = {i + 1}
                 /\ log[i + 1].status = "Finished"
            ELSE StatusPutsOf(log[i].order) = {}

\* C7 witness: one cycle of revision B reads a sent and an unsent invoice and
\* issues the one update
C7_Witness ==
    /\ rev = "B"
    /\ \E i, j \in LogIdx :
        /\ IsInvoiceRead(log[i]) /\ log[i].ok /\ log[i].sent
        /\ StatusPutsOf(log[i].order) = {i + 1}
        /\ IsInvoiceRead(log[j]) /\ log[j].ok /\ ~log[j].sent
        /\ log[j].order # log[i].order

TargetWritesOf(o) ==
    SelectSeq(log, LAMBDA q : IsTargetWrite(q) /\ q.order = o)

\* C8 (as claimed): when create_invoice of revision B has run for an order
\* without a matching company (its first write is POST Account), with a
\* legacy contact and with no request failing, its writes are: POST Account,
\* POST Contact, PUT Contact (link to the company), POST Invoice (accountId
\* the company, billingContactId the contact), then one POST InvoiceItem per
\* flattened item, in list order, each with the new invoice's id
C8_Original ==
    (rev = "B" /\ pc \in {"update", "backoff"}) =>
        LET w == TargetWritesOf(sales_orders[idx].id)
        IN  (/\ w # <<>> /\ w[1].entity = "Account"
             /\ contact # NoId
             /\ \A k \in 1..Len(w) : w[k].ok) =>
                /\ Len(w) = 4 + Len(items)
                /\ w[2].method = "POST" /\ w[2].entity = "Contact"
                /\ w[3].method = "PUT" /\ w[3].entity = "Contact"
                /\ w[3].ref = w[2].ref /\ w[3].accountId = w[1].ref
                /\ w[4].method = "POST" /\ w[4].entity = "Invoice"
                /\ w[4].accountId = w[1].ref /\ w[4].contactId = w[2].ref
                /\ \A k \in 1..Len(items) :
                     /\ IsItemPost(w[4 + k])
                     /\ w[4 + k].ref = items[k]
                     /\ w[4 + k].invoiceId = w[4].ref

\* C9 (as claimed): revision B creates at most one target company per
\* legacy account
C9_Original ==
    rev = "B" =>
        \A a \in Accounts :
            Cardinality({k \in 1..Len(companies) : companies[k].legacy = a}) <= 1

\* the items fetched for order o in the cycle: those of every use case whose
\* item query succeeded, in query order
RECURSIVE FetchedItems(_, _)
FetchedItems(o, i) ==
    IF i > Len(log) THEN <<>>
    ELSE (IF /\ log[i].sys = "old" /\ log[i].entity = "UseCaseItem"
             /\ log[i].order = o /\ log[i].ok
          THEN UseCaseItems(log[i].ref) ELSE <<>>)
         \o FetchedItems(o, i + 1)

RECURSIVE Refs(_)
Refs(reqs) == IF reqs = <<>> THEN <<>> ELSE <<Head(reqs).ref>> \o Refs(Tail(reqs))

ItemPostsOf(inv) == SelectSeq(log, LAMBDA q : IsItemPost(q) /\ q.invoiceId = inv)

\* the caller of the item routine got the invoice: revision A stores its id
\* in the order, revision B goes on to write the linkage
InvoiceReturned(o, inv) ==
    IF rev = "A" THEN LinkedInvoice(o) = inv
    ELSE \/ pc = "update" /\ invoice = inv /\ sales_orders[idx].id = o
         \/ \E j \in LogIdx : IsLegacyPut(log[j]) /\ log[j].invoiceId = inv

\* C10 (as claimed): in either revision, when an item POST of an invoice fails,
\* every item of the order is still POSTed exactly once, in order, the invoice
\* is returned, and the invoice holds exactly the items whose POST succeeded
C10_Original ==
    \A p \in LogIdx :
        (/\ IsInvoicePost(log[p]) /\ log[p].ok
         /\ \E j \in LogIdx :
              IsItemPost(log[j]) /\ log[j].invoiceId = log[p].ref /\ ~log[j].ok) =>
            LET inv == log[p].ref
                o == log[p].order
                posts == ItemPostsOf(inv)
            IN  /\ Refs(posts) = FetchedItems(o, 1)
                /\ InvoiceReturned(o, inv)
                /\ SelectSeq(invoiceItems, LAMBDA r : r.invoiceId = inv)
                     = ItemRecords(posts)


\* the requests a step of the job adds to the log
NewRequests ==
    IF cycle' # cycle THEN log' ELSE SubSeq(log', Len(log) + 1, Len(log'))
FailedIn(reqs) == SelectSeq(reqs, LAMBDA q : ~q.ok)

\* C11 (as claimed): every step of a cycle in which an exception is raised
\* (a request fails) moves the job to BACKOFF
C11_Original ==
    [][Len(FailedIn(NewRequests)) > 0 => pc' = "backoff"]_vars

\* C11 (amended): the job is a two-state machine RUNNING/BACKOFF for the
\* exceptions that are not handled where they are raised.  Revision A: every
\* failed request other than an InvoiceItem POST moves the job to BACKOFF.
\* Revision B: the job enters BACKOFF only from create_invoice, on an empty
\* account (KeyError) or a null VAT code (AttributeError); a failed request
\* never does.  From BACKOFF the only step of the job is the return to
\* RUNNING, which changes nothing else, and, whatever the number of earlier
\* failures, a fresh cycle follows; the job is never anywhere else.
C11_BackoffReturns ==
    /\ [][/\ (rev = "A" /\ \E k \in 1..Len(NewRequests) :
                    ~NewRequests[k].ok /\ ~IsItemPost(NewRequests[k]))
              => pc' = "backoff"
          /\ (rev = "B" /\ pc' = "backoff" /\ pc # "backoff")
              => /\ pc = "create"
                 /\ account = NoAccount \/ account.dic = None
          /\ pc = "backoff"
              => /\ pc' \in {"backoff", "idle"}
                 /\ UNCHANGED <<legacy, companies, contacts, invoiceItems,
                                nextId, cycle, log, failures>>
          /\ pc' \in {"idle", "backoff", "sent_check", "enrich", "create",
                       "update", "process", "wait", "verify"}]_vars
    /\ \A c \in 1..(MaxCycles - 1) :
          (pc = "backoff" /\ cycle = c) ~> (cycle = c + 1)

\* C11 witness: revision B is in BACKOFF for the second time, in a cycle that
\* followed a cycle that ended in BACKOFF too (no request ever failed, and
\* each crashed cycle left one unlinked invoice)
C11_Witness ==
    /\ rev = "B" /\ pc = "backoff" /\ cycle = 2 /\ failures = 0
    /\ Len(invoices) = 2
    /\ \A o \in Orders : legacy[o].invoiceForeignId = NoId


\* the requests of the running cycle that read invoice inv for order o
InvoiceReadsOf(o, inv) ==
    {i \in LogIdx : IsInvoiceRead(log[i]) /\ log[i].order = o /\ log[i].ref = inv}

\* C12 (as claimed): when a cycle of revision B in which no request failed is
\* over, every fetched order that carries an invoice linkage, whatever its
\* position in the batch, had that invoice re-checked in the cycle, and is
\* Finished if the check saw it sent
C12_Original ==
    (rev = "B" /\ pc \in {"idle", "backoff"} /\ FailedIn(log) = <<>>) =>
        \A k \in 1..Len(sales_orders) :
            LET so == sales_orders[k]
            IN  so.invoiceForeignId # NoId =>
                    /\ InvoiceReadsOf(so.id, so.invoiceForeignId) # {}
                    /\ \A i \in InvoiceReadsOf(so.id, so.invoiceForeignId) :
                         log[i].sent => legacy[so.id].status = "Finished"


\* the ids of the sales orders fetched by the running cycle
FetchedIds == {sales_orders[k].id : k \in 1..Len(sales_orders)}
LinkageFields == {"invoiceUrl", "invoiceNumber", "invoiceForeignId"}

\* C13: in both revisions every request to the legacy system is a read,
\* except PUTs of a sales order fetched in the running cycle whose payload
\* holds only linkage fields and/or status "Finished"; a step changes the
\* legacy data only in those fields of such an order, never adds or removes
\* a legacy record and never changes which account an order belongs to
C13_LegacyWritesOnlyLinkage ==
    /\ [](\A i \in LogIdx :
            log[i].sys = "old" =>
                \/ log[i].method = "GET"
                \/ /\ log[i].method = "PUT"
                   /\ log[i].entity = "BusinessProject"
                   /\ log[i].ref = log[i].order
                   /\ log[i].ref \in FetchedIds
                   /\ log[i].fields # {}
                   /\ log[i].fields \subseteq LinkageFields \cup {"status"}
                   /\ "status" \in log[i].fields => log[i].status = "Finished")
    /\ [][/\ DOMAIN legacy' = DOMAIN legacy
          /\ orderAccount' = orderAccount
          /\ \A o \in Orders :
                legacy'[o] # legacy[o] =>
                    /\ o \in FetchedIds
                    /\ DOMAIN legacy'[o] = DOMAIN legacy[o]
                    /\ legacy'[o].status \in {legacy[o].status, "Finished"}
                    /\ \E j \in 1..Len(NewRequests) :
                         /\ IsLegacyPut(NewRequests[j]) /\ NewRequests[j].ok
                         /\ NewRequests[j].ref = o]_vars

\* C13 witness: one cycle of revision B has written a linkage to one order
\* and the status to another
C13_Witness ==
    /\ rev = "B"
    /\ \E i, j \in LogIdx :
        /\ IsLegacyPut(log[i]) /\ log[i].ok /\ log[i].fields = {"status"}
        /\ IsLegacyPut(log[j]) /\ log[j].ok /\ log[j].fields = LinkageFields
        /\ legacy[log[i].ref].status = "Finished"
        /\ legacy[log[j].ref].invoiceForeignId = log[j].invoiceId


\* an enrichment read for an order: account, contacts, use cases, items (the
\* contacts come from the target system in revision A)
IsEnrichRead(q) ==
    /\ q.method = "GET" /\ q.order # NoId
    /\ q.sys = "old" \/ (rev = "A" /\ q.entity = "Contact")

\* C14 (as claimed): in the log of one cycle and for every order, every
\* enrichment read precedes the POST of its invoice, the POST precedes every
\* read of an invoice of the order, and no enrichment read or invoice POST
\* follows a read of an invoice of the order
C14_Original ==
    \A i, j \in LogIdx :
        log[i].order = log[j].order =>
            /\ (IsEnrichRead(log[i]) /\ IsInvoicePost(log[j])) => i < j
            /\ (IsInvoicePost(log[i]) /\ IsInvoiceRead(log[j])) => i < j
            /\ (IsInvoiceRead(log[i]) /\ IsEnrichRead(log[j])) => j < i


\* C15: when a page request of a fetch fails, it is the last request of that
\* fetch; get_sales_orders then returns, without raising, exactly the records
\* of the pages read before it (which the caller takes as its batch), while
\* get_entities raises and hands nothing to its caller
C15_FetchAborts ==
    \A out \in {fOut.sync, fOut.inv} :
        (out.done /\ ~NoRequestFailed(out)) =>
            /\ Len(out.requests) = fIn.failAt
            /\ out.requests =
                 SubSeq(ExpectedOffsets(fIn.n, fIn.limit), 1, fIn.failAt)
            /\ IF out = fOut.sync
               THEN /\ ~out.raised
                    /\ out.list = SubSeq(Records(fIn.n), 1,
                                         (fIn.failAt - 1) * fIn.limit)
               ELSE out.raised /\ out.list = <<>>

\* C15 witness: the third request fails; get_sales_orders returns the two
\* pages read, get_entities raises
C15_Witness ==
    /\ fOut.sync.done /\ fOut.inv.done
    /\ fIn.failAt = 3 /\ fIn.limit = 2 /\ fIn.n = 5
    /\ fOut.sync.requests = <<0, 2, 4>> /\ fOut.inv.requests = <<0, 2, 4>>
    /\ ~fOut.sync.raised /\ Len(fOut.sync.list) = 4
    /\ fOut.inv.raised /\ fOut.inv.list = <<>>


IsAccountPost(q) == q.sys = "new" /\ q.method = "POST" /\ q.entity = "Account"
IsContactPost(q) == q.sys = "new" /\ q.method = "POST" /\ q.entity = "Contact"
\* a lookup of get_company by the given attribute failed in the step
LookupFailed(attribute) ==
    \E k \in 1..Len(NewRequests) :
        /\ NewRequests[k].method = "GET" /\ NewRequests[k].entity = "Account"
        /\ NewRequests[k].fields = {attribute} /\ ~NewRequests[k].ok
\* what get_company returned to the create_invoice of the step
CompanyReturned ==
    get_company(companies, account.name, account.sicCode, account.dic,
                LookupFailed("dic"), LookupFailed("sicCode"))

\* C16: in every run of create_invoice of revision B (on a fetched account),
\* an Account is POSTed exactly when get_company returned no match, and then
\* with the legacy account's data; an Invoice that is POSTed carries the id of
\* the matched company or of the company just created; when a company was
\* matched, no Account and no Contact is POSTed and the target's companies
\* and contacts stay as they are
C16_AccountPostedIffNoMatch ==
    [][(rev = "B" /\ pc = "create" /\ account # NoAccount /\ pc' # pc) =>
        LET matched == CompanyReturned.id # NoId
            posts == SelectSeq(NewRequests, IsAccountPost)
            invs == SelectSeq(NewRequests, IsInvoicePost)
        IN  /\ (posts # <<>>) <=> ~matched
            /\ Len(posts) <= 1 /\ Len(invs) <= 1
            /\ \A k \in 1..Len(posts) :
                 /\ posts[k].accountId = account.id
                 /\ posts[k].ok =>
                      LET c == companies'[Len(companies')]
                      IN  /\ Len(companies') = Len(companies) + 1
                          /\ c.id = posts[k].ref /\ c.name = account.name
                          /\ c.sicCode = account.sicCode /\ c.dic = account.dic
            /\ \A k \in 1..Len(invs) :
                 /\ invs[k].accountId =
                      IF matched THEN CompanyReturned.id ELSE posts[1].ref
                 /\ invs[k].accountId # NoId
                 /\ invs[k].ok =>
                      invoices'[Len(invoices')].accountId = invs[k].accountId
            /\ matched =>
                 /\ SelectSeq(NewRequests, IsContactPost) = <<>>
                 /\ companies' = companies /\ contacts' = contacts]_vars

\* C16 witness: in one cycle the first order's company was created from the
\* legacy account and the second order's invoice was booked on that company,
\* found by get_company, without another Account or Contact being POSTed
C16_Witness ==
    /\ rev = "B" /\ pc = "update" /\ idx = 2
    /\ \E a, i, j \in LogIdx :
        /\ IsAccountPost(log[a]) /\ log[a].ok /\ log[a].order = 1
        /\ IsInvoicePost(log[i]) /\ log[i].ok /\ log[i].order = 1
        /\ log[i].accountId = log[a].ref
        /\ IsInvoicePost(log[j]) /\ log[j].ok /\ log[j].order = 2
        /\ log[j].accountId = log[a].ref
    /\ \A k \in LogIdx :
        log[k].order = 2 => ~IsAccountPost(log[k]) /\ ~IsContactPost(log[k])
    /\ Len(companies) = 1


\* the tax rate the items of an account should carry: 21 for a VAT code with
\* the prefix "cz" in any letter case, none (0) otherwise
ExpectedTax(dic) ==
    IF dic # None /\ StartsWith(Lower(dic), <<"c", "z">>) THEN 21 ELSE 0

\* C17 (as claimed): when create_invoice of revision B has POSTed the invoice
\* of an order and no request of the cycle failed, every fetched item of the
\* order is POSTed for that invoice with the one tax rate of the account's
\* VAT code (none when the account has no VAT code), and the invoice is
\* returned to the caller
C17_Original ==
    (rev = "B" /\ pc \in {"update", "backoff"} /\ account # NoAccount
     /\ FailedIn(log) = <<>>) =>
        \A p \in LogIdx :
            (IsInvoicePost(log[p]) /\ log[p].order = sales_orders[idx].id) =>
                LET posts == ItemPostsOf(log[p].ref)
                IN  /\ Refs(posts) = items
                    /\ \A k \in 1..Len(posts) :
                         posts[k].tax = ExpectedTax(account.dic)
                    /\ pc = "update" /\ invoice = log[p].ref


\* the non-deleted target contacts of an account, in result order
ContactsOf(a) == SelectSeq(contacts, LAMBDA c : c.accountId = a /\ ~c.deleted)

\* C18: every Invoice POSTed with a billing contact names the first element
\* of the contact result set used for it.  Revision A: the first target
\* contact returned for the order's account.  Revision B: the first contact
\* of the matched company, or else the contact just POSTed, which is the
\* copy of the first legacy contact of the account
C18_FirstContactIsBilling ==
    [][/\ (rev = "A" /\ pc = "process") =>
            \A k \in 1..Len(NewRequests) :
                IsInvoicePost(NewRequests[k]) =>
                    LET cs == ContactsOf(sales_orders[idx].account1Id)
                    IN  cs # <<>> /\ NewRequests[k].contactId = cs[1].id
       /\ (rev = "B" /\ pc = "create" /\ account # NoAccount) =>
            \A k \in 1..Len(NewRequests) :
                (IsInvoicePost(NewRequests[k])
                 /\ NewRequests[k].contactId # NoId) =>
                    IF CompanyReturned.id # NoId
                    THEN LET cs == ContactsOf(CompanyReturned.id)
                         IN  cs # <<>> /\ NewRequests[k].contactId = cs[1].id
                    ELSE LET first == LegacyContacts(account.id)[1]
                             new == contacts'[Len(contacts')]
                         IN  /\ \E j \in 1..(k - 1) :
                                  /\ IsContactPost(NewRequests[j])
                                  /\ NewRequests[j].ok
                                  /\ NewRequests[j].contactId = first
                                  /\ NewRequests[j].ref = NewRequests[k].contactId
                             /\ Len(contacts') = Len(contacts) + 1
                             /\ new.id = NewRequests[k].contactId
                             /\ new.legacy = first]_vars

\* C18 witness: revision B booked an invoice on a matched company that has
\* two contacts, with the first of them as billing contact
C18_Witness ==
    /\ rev = "B"
    /\ \E i \in LogIdx, k \in 1..Len(invoices) :
        /\ IsInvoicePost(log[i]) /\ log[i].ok /\ log[i].ref = invoices[k].id
        /\ Len(ContactsOf(invoices[k].accountId)) = 2
        /\ invoices[k].billingContactId = ContactsOf(invoices[k].accountId)[1].id
        /\ log[i].contactId = invoices[k].billingContactId


\* the legacy updates of the running cycle that carry a linkage for order o
LinkagePutsOf(o) ==
    {j \in LogIdx : IsLegacyPut(log[j]) /\ log[j].order = o
                    /\ "invoiceForeignId" \in log[j].fields}
\* the loop of invoice_processor has gone on to the order after the current
LoopContinues ==
    IF idx < Len(sales_orders)
    THEN idx' = idx + 1 /\ pc' = "sent_check"
    ELSE idx' = 0 /\ pc' = "idle"

\* C19: in revision B, when create_invoice returns an invoice, the next step
\* of the job issues exactly one legacy update for that order, carrying
\* invoiceUrl, invoiceNumber and invoiceForeignId of that invoice, and only
\* then the loop goes on; when create_invoice returns {} after a failed
\* write, no legacy write is issued for the order and the loop goes on with
\* the next order.  A cycle holds at most one linkage update per order, and
\* it follows the order's invoice POST and item POSTs directly
C19_OneLinkageUpdate ==
    /\ [][/\ (rev = "B" /\ pc = "create" /\ account # NoAccount /\ pc' # pc) =>
              /\ legacy' = legacy
              /\ \A k \in 1..Len(NewRequests) : NewRequests[k].sys = "new"
              /\ invoice' # NoId => pc' = "update" /\ idx' = idx
              /\ (\E k \in 1..Len(NewRequests) :
                     /\ IsTargetWrite(NewRequests[k]) /\ ~NewRequests[k].ok
                     /\ ~IsItemPost(NewRequests[k]))
                  => invoice' = NoId /\ LoopContinues
          /\ (rev = "B" /\ pc = "update" /\ pc' # pc) =>
              LET o == sales_orders[idx].id
              IN  /\ invoice # NoId
                  /\ Len(NewRequests) = 1
                  /\ IsLegacyPut(NewRequests[1])
                  /\ NewRequests[1].order = o /\ NewRequests[1].ref = o
                  /\ NewRequests[1].fields = LinkageFields
                  /\ NewRequests[1].invoiceId = invoice
                  /\ NewRequests[1].ok =>
                       /\ legacy'[o].invoiceForeignId = invoice
                       /\ legacy'[o].invoiceNumber = InvoiceNumber(invoice)
                       /\ legacy'[o].invoiceUrl = InvoiceUrl(invoice)
                  /\ LoopContinues]_vars
    /\ [](rev = "B" =>
            \A o \in Orders :
                /\ Cardinality(LinkagePutsOf(o)) <= 1
                /\ \A j \in LinkagePutsOf(o) :
                     \E p \in 1..(j - 1) :
                        /\ IsInvoicePost(log[p]) /\ log[p].ok
                        /\ log[p].order = o /\ log[p].ref = log[j].invoiceId
                        /\ \A i \in (p + 1)..(j - 1) :
                             IsItemPost(log[i])
                             /\ log[i].invoiceId = log[p].ref)

\* C19 witness: create_invoice returned {} for order 1 after its invoice
\* POST failed, no legacy write was issued for it, and the loop went on to
\* order 2, which got its one linkage update
C19_Witness ==
    /\ rev = "B"
    /\ \E p \in LogIdx :
        IsInvoicePost(log[p]) /\ ~log[p].ok /\ log[p].order = 1
    /\ \A j \in LogIdx : IsLegacyPut(log[j]) => log[j].order # 1
    /\ \E j \in LinkagePutsOf(2) :
        log[j].ok /\ legacy[2].invoiceForeignId = log[j].invoiceId


\* requests of the enrich and build steps of an order
IsProcessingRequest(q) ==
    q.order # NoId /\ ~IsInvoiceRead(q) /\ ~IsLegacyPut(q)
\* requests of the reconcile phase
IsReconcileRequest(q) == IsInvoiceRead(q) \/ IsLegacyPut(q)
RequestsOf(o) == {i \in LogIdx : log[i].order = o}

\* C20: in a cycle of revision A every legacy write belongs to the reconcile
\* phase, which follows all enrich and build requests and is entered only
\* when every order of the batch has its invoice built; when processing an
\* order raised, the cycle is over (BACKOFF), the orders after it have no
\* request at all, and the cycle holds no reconcile read and no legacy
\* write; a cycle with an empty batch has issued nothing but the fetch
C20_WritesOnlyInReconcile ==
    rev = "A" =>
        /\ \A i, j \in LogIdx :
              (IsReconcileRequest(log[j]) /\ IsProcessingRequest(log[i])) => i < j
        /\ (pc \in {"wait", "verify"}
            \/ \E j \in LogIdx : IsReconcileRequest(log[j])) =>
              \A k \in 1..Len(sales_orders) :
                  /\ PostedFor(sales_orders[k].id)
                  /\ sales_orders[k].invoiceId \in PostedInCycle
                  /\ \A i \in RequestsOf(sales_orders[k].id) :
                       (IsProcessingRequest(log[i]) /\ ~log[i].ok)
                          => IsItemPost(log[i])
        /\ (\E k \in 1..Len(sales_orders) : ~PostedFor(sales_orders[k].id)) =>
              /\ \A j \in LogIdx : ~IsReconcileRequest(log[j])
              /\ pc \in {"process", "backoff", "idle"}
              /\ pc = "process" => ~PostedFor(sales_orders[idx].id)
              /\ \A k, l \in 1..Len(sales_orders) :
                   (k < l /\ ~PostedFor(sales_orders[k].id))
                      => RequestsOf(sales_orders[l].id) = {}
        /\ sales_orders = <<>> =>
              /\ pc \in {"idle", "backoff"}
              /\ \A i \in LogIdx :
                   /\ log[i].sys = "old" /\ log[i].method = "GET"
                   /\ log[i].entity = "BusinessProject"

\* C20 witness: revision A built the invoice of order 1, processing order 2
\* raised, and the cycle ended in BACKOFF without a reconcile read or a
\* legacy write
C20_Witness ==
    /\ rev = "A" /\ pc = "backoff" /\ idx = 2 /\ Len(sales_orders) = 2
    /\ PostedFor(sales_orders[1].id) /\ ~PostedFor(sales_orders[2].id)
    /\ \A j \in LogIdx : ~IsReconcileRequest(log[j])
    /\ \A o \in Orders : legacy[o].status = "Invoice"

=============================================================================
